---- MODULE Spec2Model ----
(***************************************************************************)
(* Model of src/cython/distances_core.c: the wavefront propagator          *)
(* distance_from_points_treerings_separable, the brute-force assigners     *)
(* distance_from_points / distance_from_points_separable, the boundary     *)
(* extractors find_edges / find_edges_labeled and distance_transform.      *)
(*                                                                         *)
(* Distances are doubles in the source.  The functions only compare them   *)
(* and copy them, so the model keeps their order: a distance is a natural  *)
(* number in 0..MaxDist and the value of calc_dist for (point, row,        *)
(* column) is read from a table dtab that is an input of the run.          *)
(* C arrays are functions on 0..n-1.  A read past the end of an array is   *)
(* undefined behaviour and is modelled as a read of any value.             *)
(***************************************************************************)
EXTENDS Integers, Sequences, FiniteSets

(* ---------------------------------------------------------------- bounds *)
MaxNy == 2
MaxNx == 3
MaxPoint == 2
\* largest number of entries npoint*ny*nx of the distance table of a run
MaxCells == 6
MaxDist == 2
\* passes counted by `it` (the source only prints it)
MaxIt == 2
\* rows of the grids of the wrap-around scenario
MaxWrapNy == 5
\* rows and columns of the grids of find_edges and find_edges_labeled
MaxEdgeNy == 4
MaxEdgeNx == 3
\* labels are 0..MaxLabel
MaxLabel == 2
\* rows and columns of the grids of distance_transform
MaxSide == 2
\* the largest distance of the coarse distance tables
MaxCoarseDist == 1
\* rows and columns of the grids on which whole runs of the propagator are
\* compared, and the passes such a run may take
MaxRunSide == 2
MaxRunPoint == 3
MaxRunDist == 1
MaxPasses == 8
\* entries a frontier can hold: the memory the model gives realloc
MaxFrontier == 12

(* ------------------------------------------------------- program constants *)
\* dists[i] = 1e300, line 162: larger than every distance
SENTINEL == 1000
\* domains[i] = -1, line 163
UNASSIGNED == -1
\* the position of a point that distance_transform read outside posmap
JUNK == -1
nneigh == 4
yoffs == <<0, 0, -1, 1>>
xoffs == <<-1, 1, 0, 0>>

VARIABLES
  ny, nx,            \* grid dimensions
  npoint,            \* number of reference points
  point_y, point_x,  \* seed pixel of each point
  dtab,              \* the value of calc_dist(ipoint, y, x)
  heap,              \* the doubles that lie past the end of dists
  dists, domains,    \* the output grids
  curr, next,        \* the frontiers (curr_y/curr_x, next_y/next_x), as <<y, x>>
  pc,                \* position in the function
  i, oi,             \* loop indices
  ipoint,            \* the local ipoint of the propagate loop
  it,                \* pass counter
  last,              \* the memory accesses of the last step
  fn,                \* the function that was called
  areas,             \* brute force: the optional output, << >> when NULL
  j,                 \* brute force: the point index of the flat loop
  rows,              \* separable brute force: <<x, j>> of the worker of each row
  mask,              \* the mask or label grid
  edges,             \* the indices pushed by find_edges / find_edges_labeled
  posmap,            \* distance_transform: the right ascension of each pixel
  points             \* distance_transform: the right ascension of each point

treeVars == <<point_y, point_x, domains, curr, next, oi, ipoint, it, last>>
bruteVars == <<areas, j, rows>>
edgeVars == <<mask, edges, posmap, points>>

vars == <<ny, nx, npoint, dtab, heap, dists, pc, i, fn, treeVars, bruteVars, edgeVars>>

input == <<ny, nx, npoint, point_y, point_x, dtab, heap, fn>>

DistVals == 0..MaxDist

\* what a read outside an array may return
AnyDouble == DistVals \cup {SENTINEL}

NoAccess == [op |-> "none", y |-> -1, x |-> -1, oi |-> -1, y2 |-> -1, x2 |-> -1,
             cmp |-> -1, wr |-> -1, old |-> -1, cand |-> -1]

\* the variables a function does not use keep these values
TreeIdle ==
  /\ point_y = << >> /\ point_x = << >> /\ domains = << >> /\ curr = << >> /\ next = << >>
  /\ oi = 0 /\ ipoint = UNASSIGNED /\ it = 0 /\ last = NoAccess
BruteIdle == areas = << >> /\ j = 0 /\ rows = << >>
EdgeIdle == mask = << >> /\ edges = << >> /\ posmap = << >> /\ points = << >>

(* ------------------------------------------------ treerings: the macros *)
\* the distance from point 0, whoever the owner is
calc_dist_point0(p, y, x) == dtab[<<0, y, x>>]

\* calc_dist(ipoint, y, x): the distance from point ipoint itself to pixel (y, x)
calc_dist(p, y, x) == dtab[<<p, y, x>>]

\* the grids after update(y, x, dist, i): the two stores of the macro
update_dists(y, x, dist) == [dists EXCEPT ![y * nx + x] = dist]
update_domains(y, x, p) == [domains EXCEPT ![y * nx + x] = p]

\* the index whose stored distance the propagate loop compares with
pix2_index(y2, x2) == y2 * ny + x2

\* the indices past the end of dists that the propagate loop can read
OutsideCells(h, w) == {k \in {pix2_index(y, x) : y \in 0..(h - 1), x \in 0..(w - 1)} : k >= h * w}

\* dists[pix2] as the build reads it: past the end it finds what the heap holds
read_dists(pix2) == IF pix2 < ny * nx THEN dists[pix2] ELSE heap[pix2]

\* edge wrapping of one coordinate
wrap(v, n) == IF v < 0 THEN v + n ELSE IF v >= n THEN v - n ELSE v

\* a swap that forgets next_n = 0
swap_buffers_keep_next(st) == [st EXCEPT !.cur = st.nxt]

\* swap_buffers() on a record with the fields cur and nxt: the two arrays
\* change roles, curr_n = next_n, next_n = 0
swap_buffers(st) == [st EXCEPT !.cur = st.nxt, !.nxt = << >>]

\* a loop that tests after its first pass
after_swap_pass_first(n) == IF n >= 0 THEN "prop" ELSE "done"

\* the loop test of the propagate loop
after_swap(n) == IF n > 0 THEN "prop" ELSE "done"

(* ----------------------------------------------------- treerings: Init *)
\* the state after the sentinel fill and the allocation of the frontiers
TreeStart ==
  /\ fn = "distance_from_points_treerings_separable"
  /\ BruteIdle /\ EdgeIdle
  /\ dists = [k \in 0..(ny * nx - 1) |-> SENTINEL]
  /\ domains = [k \in 0..(ny * nx - 1) |-> UNASSIGNED]
  /\ curr = <<>>
  /\ next = <<>>
  /\ pc = "seed"
  /\ i = 0
  /\ oi = 0
  /\ ipoint = UNASSIGNED
  /\ it = 0
  /\ last = NoAccess

\* every grid, every seeding and every table of distances within the bounds
TreeInit ==
  /\ ny \in 1..MaxNy
  /\ nx \in 1..MaxNx
  /\ npoint \in 0..MaxPoint
  /\ npoint * ny * nx <= MaxCells
  /\ point_y \in [0..(npoint - 1) -> 0..(ny - 1)]
  /\ point_x \in [0..(npoint - 1) -> 0..(nx - 1)]
  /\ dtab \in [(0..(npoint - 1)) \X (0..(ny - 1)) \X (0..(nx - 1)) -> DistVals]
  /\ heap \in [OutsideCells(ny, nx) -> AnyDouble]
  /\ TreeStart

\* the wrap-around scenario: four columns, one point seeded in column 0 of any
\* row, every pixel at the same distance of the point
WrapInit ==
  /\ ny \in 1..MaxWrapNy
  /\ nx = 4
  /\ npoint = 1
  /\ point_y \in [0..0 -> 0..(ny - 1)]
  /\ point_x = [p \in 0..0 |-> 0]
  /\ \E d \in DistVals :
       dtab = [k \in (0..0) \X (0..(ny - 1)) \X (0..(nx - 1)) |-> d]
  /\ heap \in [OutsideCells(ny, nx) -> AnyDouble]
  /\ TreeStart

(* -------------------------------------------------- treerings: actions *)
\* one iteration of the seeding loop
Seed ==
  /\ pc = "seed"
  /\ i < npoint
  /\ LET y == point_y[i]
         x == point_x[i]
         dist == calc_dist(i, y, x)
     IN /\ dists' = update_dists(y, x, dist)
        /\ domains' = update_domains(y, x, i)
        /\ next' = Append(next, <<y, x>>)
        /\ last' = [op |-> "seed", y |-> -1, x |-> -1, oi |-> -1, y2 |-> y, x2 |-> x,
                    cmp |-> -1, wr |-> y * nx + x, old |-> dists[y * nx + x],
                    cand |-> dist]
  /\ i' = i + 1
  /\ UNCHANGED <<input, curr, pc, oi, ipoint, it, bruteVars, edgeVars>>

\* swap_buffers() after the seeding loop, then the first loop test
SeedSwap ==
  /\ pc = "seed"
  /\ i = npoint
  /\ LET st == swap_buffers([cur |-> curr, nxt |-> next])
     IN /\ curr' = st.cur
        /\ next' = st.nxt
  /\ pc' = after_swap(Len(next))
  /\ i' = 0
  /\ oi' = 0
  /\ last' = [NoAccess EXCEPT !.op = "swap"]
  /\ UNCHANGED <<input, dists, domains, ipoint, it, bruteVars, edgeVars>>

\* one neighbour of one frontier pixel
Relax ==
  /\ pc = "prop"
  /\ i < Len(curr)
  /\ LET y == curr[i + 1][1]
         x == curr[i + 1][2]
         pix == y * nx + x
         ip == IF oi = 0 THEN domains[pix] ELSE ipoint
         y2 == wrap(y + yoffs[oi + 1], ny)
         x2 == wrap(x + xoffs[oi + 1], nx)
         pix2 == pix2_index(y2, x2)
         cand_dist == calc_dist(ip, y2, x2)
     IN /\ ipoint' = ip
        /\ IF cand_dist < read_dists(pix2)
           THEN /\ Len(next) < MaxFrontier
                /\ dists' = update_dists(y2, x2, cand_dist)
                /\ domains' = update_domains(y2, x2, ip)
                /\ next' = Append(next, <<y2, x2>>)
                /\ last' = [op |-> "relax", y |-> y, x |-> x, oi |-> oi, y2 |-> y2, x2 |-> x2,
                            cmp |-> pix2, wr |-> y2 * nx + x2,
                            old |-> dists[y2 * nx + x2], cand |-> cand_dist]
           ELSE /\ UNCHANGED <<dists, domains, next>>
                /\ last' = [op |-> "relax", y |-> y, x |-> x, oi |-> oi, y2 |-> y2, x2 |-> x2,
                            cmp |-> pix2, wr |-> -1, old |-> -1, cand |-> cand_dist]
  /\ IF oi + 1 < nneigh
     THEN /\ oi' = oi + 1
          /\ i' = i
     ELSE /\ oi' = 0
          /\ i' = i + 1
  /\ UNCHANGED <<input, curr, pc, it, bruteVars, edgeVars>>

\* swap_buffers() at the end of a pass, it++, then the loop test
PassSwap ==
  /\ pc = "prop"
  /\ i = Len(curr)
  /\ LET st == swap_buffers([cur |-> curr, nxt |-> next])
     IN /\ curr' = st.cur
        /\ next' = st.nxt
  /\ pc' = after_swap(Len(next))
  /\ i' = 0
  /\ oi' = 0
  /\ it' = IF it < MaxIt THEN it + 1 ELSE it
  /\ last' = [NoAccess EXCEPT !.op = "swap"]
  /\ UNCHANGED <<input, dists, domains, ipoint, bruteVars, edgeVars>>

TreeNext == Seed \/ SeedSwap \/ Relax \/ PassSwap

Spec == TreeInit /\ [][TreeNext]_vars

\* The function runs on one thread that never stops by itself; the inputs are
\* those on which every read of dists falls inside the array.
LiveInit == TreeInit /\ OutsideCells(ny, nx) = {}
SpecLive == LiveInit /\ [][TreeNext]_vars /\ WF_vars(TreeNext)

SpecWrap == WrapInit /\ [][TreeNext]_vars

\* The same function on the same grids and seeds with distance tables of the
\* values 0..MaxCoarseDist only.
CoarseInit ==
  /\ ny \in 1..MaxNy
  /\ nx \in 1..MaxNx
  /\ npoint \in 0..MaxPoint
  /\ npoint * ny * nx <= MaxCells
  /\ point_y \in [0..(npoint - 1) -> 0..(ny - 1)]
  /\ point_x \in [0..(npoint - 1) -> 0..(nx - 1)]
  /\ dtab \in [(0..(npoint - 1)) \X (0..(ny - 1)) \X (0..(nx - 1)) -> 0..MaxCoarseDist]
  /\ heap \in [OutsideCells(ny, nx) -> (0..MaxCoarseDist) \cup {SENTINEL}]
  /\ TreeStart

SpecCoarse == CoarseInit /\ [][TreeNext]_vars

(* ======================================================== whole-run view *)
\* distance_from_points_treerings_separable as a function of its input: the
\* same seeding, relaxation and swaps as the actions above, run to the end.
\* A run state is [d, m, cur, nxt, fin, dup]: dists, domains, the two
\* frontiers, whether the while loop has exited, and whether update() was ever
\* called for a pixel that was already in next.  once_per_pass is the variant
\* in which update() drops the push of a pixel that is already in next.

\* the variant keeps only the first push of a pass
push_first_only(nxt, e, once_per_pass) ==
  IF once_per_pass /\ Len(nxt) > 0 THEN nxt ELSE Append(nxt, e)

\* next_y[next_n] = y; next_x[next_n] = x; next_n++
push(nxt, e, once_per_pass) ==
  IF once_per_pass /\ \E n \in 1..Len(nxt) : nxt[n] = e THEN nxt ELSE Append(nxt, e)

\* update(y, x, dist, i) on a run state
update(st, y, x, dist, p, once_per_pass) ==
  [st EXCEPT !.d[y * nx + x] = dist, !.m[y * nx + x] = p,
             !.nxt = push(st.nxt, <<y, x>>, once_per_pass),
             !.dup = st.dup \/ \E n \in 1..Len(st.nxt) : st.nxt[n] = <<y, x>>]

\* dists[pix2] in a run state
stored_dist(st, pix2) == IF pix2 < ny * nx THEN st.d[pix2] ELSE heap[pix2]

\* the seeding loop from point p on
RECURSIVE seed_from(_, _, _)
seed_from(p, st, once_per_pass) ==
  IF p >= npoint THEN st
  ELSE seed_from(p + 1,
                 update(st, point_y[p], point_x[p],
                        calc_dist(p, point_y[p], point_x[p]), p, once_per_pass),
                 once_per_pass)

\* the loop over the current frontier from entry n, neighbour o on; ip is
\* the owner read when entry n was begun
RECURSIVE relax_from(_, _, _, _, _)
relax_from(n, o, ip, st, once_per_pass) ==
  IF n > Len(st.cur) THEN st
  ELSE LET y == st.cur[n][1]
           x == st.cur[n][2]
           owner == IF o = 0 THEN st.m[y * nx + x] ELSE ip
           y2 == wrap(y + yoffs[o + 1], ny)
           x2 == wrap(x + xoffs[o + 1], nx)
           cand_dist == calc_dist(owner, y2, x2)
           st2 == IF cand_dist < stored_dist(st, pix2_index(y2, x2))
                  THEN update(st, y2, x2, cand_dist, owner, once_per_pass)
                  ELSE st
       IN IF o + 1 < nneigh
          THEN relax_from(n, o + 1, owner, st2, once_per_pass)
          ELSE relax_from(n + 1, 0, owner, st2, once_per_pass)

\* while(curr_n > 0) { ... swap_buffers(); it++; }, at most fuel passes and
\* frontiers of at most MaxFrontier entries
RECURSIVE passes_from(_, _, _)
passes_from(st, fuel, once_per_pass) ==
  IF Len(st.cur) = 0 THEN [st EXCEPT !.fin = TRUE]
  ELSE IF fuel = 0 \/ Len(st.cur) > MaxFrontier THEN st
  ELSE passes_from(swap_buffers(relax_from(1, 0, UNASSIGNED, st, once_per_pass)),
                   fuel - 1, once_per_pass)

treerings_run(once_per_pass) ==
  LET filled == [d |-> [k \in 0..(ny * nx - 1) |-> SENTINEL],
                 m |-> [k \in 0..(ny * nx - 1) |-> UNASSIGNED],
                 cur |-> << >>, nxt |-> << >>, fin |-> FALSE, dup |-> FALSE]
  IN passes_from(swap_buffers(seed_from(0, filled, once_per_pass)), MaxPasses, once_per_pass)

RunInit ==
  /\ ny \in 1..MaxRunSide
  /\ nx \in 1..MaxRunSide
  /\ npoint \in 0..MaxRunPoint
  /\ point_y \in [0..(npoint - 1) -> 0..(ny - 1)]
  /\ point_x \in [0..(npoint - 1) -> 0..(nx - 1)]
  /\ dtab \in [(0..(npoint - 1)) \X (0..(ny - 1)) \X (0..(nx - 1)) -> 0..MaxRunDist]
  /\ heap \in [OutsideCells(ny, nx) -> {0, SENTINEL}]
  /\ TreeStart

\* the call from entry to return, when it returns
Propagate ==
  /\ fn = "distance_from_points_treerings_separable"
  /\ pc = "seed"
  /\ LET r == treerings_run(FALSE)
     IN /\ r.fin
        /\ dists' = r.d
        /\ domains' = r.m
  /\ pc' = "done"
  /\ UNCHANGED <<input, curr, next, i, oi, ipoint, it, last, bruteVars, edgeVars>>

RunNext == Propagate

SpecRun == RunInit /\ [][RunNext]_vars

(* ============================================================ brute force *)
\* distance_from_points and distance_from_points_separable.  The loops that
\* precompute cos and sin only feed the distance, which is read from dtab.
Flat == fn \in {"distance_from_points", "distance_transform"}
Separable == fn = "distance_from_points_separable"

\* the distance d the flat loop computes for pixel k and point p.  Called by
\* distance_transform the positions are those of posmap (pixels on the equator,
\* right ascensions in whole units); a point read outside posmap is at any
\* distance.
flat_dist(k, p) ==
  IF fn = "distance_transform"
  THEN IF points[p] = JUNK THEN DistVals
       ELSE {IF posmap[k] >= points[p] THEN posmap[k] - points[p] ELSE points[p] - posmap[k]}
  ELSE {dtab[<<p, k \div nx, k % nx>>]}

\* the distance d the separable loop computes for pixel (y, x) and point p
separable_dist(y, x, p) == dtab[<<p, y, x>>]

\* the comparison without its j == 0 case
brute_accept_no_first(p, d, stored) == d < stored

\* if(j == 0 || d < dists[i])
brute_accept(p, d, stored) == p = 0 \/ d < stored

\* if(areas) areas[i] = j
store_area(k, p) == IF areas = << >> THEN areas ELSE [areas EXCEPT ![k] = p]

\* what dists and areas may hold when the function is called
GarbageDists(n) == {[k \in 0..(n - 1) |-> g] : g \in AnyDouble}
GarbageAreas(n) == {<< >>} \cup {[k \in 0..(n - 1) |-> a] : a \in UNASSIGNED..(MaxPoint - 1)}

BruteInit ==
  /\ fn \in {"distance_from_points", "distance_from_points_separable"}
  /\ TreeIdle /\ EdgeIdle
  /\ ny \in 1..MaxNy
  /\ nx \in 1..MaxNx
  /\ npoint \in 0..MaxPoint
  /\ npoint * ny * nx <= MaxCells
  /\ dtab \in [(0..(npoint - 1)) \X (0..(ny - 1)) \X (0..(nx - 1)) -> DistVals]
  /\ heap = << >>
  /\ dists \in GarbageDists(ny * nx)
  /\ areas \in GarbageAreas(ny * nx)
  /\ pc = "brute"
  /\ i = 0
  /\ j = 0
  /\ rows = IF fn = "distance_from_points_separable"
            THEN [y \in 0..(ny - 1) |-> <<0, 0>>] ELSE << >>

\* one iteration of the loop over j of distance_from_points
FlatStep ==
  /\ Flat
  /\ pc = "brute"
  /\ i < ny * nx
  /\ j < npoint
  /\ \E d \in flat_dist(i, j) :
       IF brute_accept(j, d, dists[i])
       THEN /\ dists' = [dists EXCEPT ![i] = d]
            /\ areas' = store_area(i, j)
       ELSE UNCHANGED <<dists, areas>>
  /\ IF j + 1 < npoint
     THEN /\ j' = j + 1
          /\ i' = i
     ELSE /\ j' = 0
          /\ i' = i + 1
  /\ UNCHANGED <<ny, nx, npoint, dtab, heap, pc, fn, rows, treeVars, edgeVars>>

\* the loop over the pixels of distance_from_points is over (at once when
\* there is no point); distance_transform goes on with its last loop
FlatEnd ==
  /\ Flat
  /\ pc = "brute"
  /\ i = ny * nx \/ npoint = 0
  /\ pc' = IF fn = "distance_transform" THEN "interior" ELSE "done"
  /\ i' = 0
  /\ UNCHANGED <<ny, nx, npoint, dtab, heap, dists, fn, bruteVars, treeVars, edgeVars>>

\* every worker on the cells of row 0
separable_index_row0(y, x) == x

\* inum i = y*nx+x
separable_index(y, x) == y * nx + x

\* one iteration of the loop over j of distance_from_points_separable, in
\* the worker of row y (omp parallel for: the rows run in any interleaving)
SeparableStep(y) ==
  /\ Separable
  /\ pc = "brute"
  /\ LET x == rows[y][1]
         p == rows[y][2]
         k == separable_index(y, x)
     IN /\ x < nx
        /\ p < npoint
        /\ LET d == separable_dist(y, x, p)
           IN IF brute_accept(p, d, dists[k])
              THEN /\ dists' = [dists EXCEPT ![k] = d]
                   /\ areas' = store_area(k, p)
              ELSE UNCHANGED <<dists, areas>>
        /\ rows' = [rows EXCEPT ![y] = IF p + 1 < npoint THEN <<x, p + 1>> ELSE <<x + 1, 0>>]
  /\ UNCHANGED <<ny, nx, npoint, dtab, heap, pc, i, fn, j, treeVars, edgeVars>>

\* every row is finished: the parallel loop joins
SeparableEnd ==
  /\ Separable
  /\ pc = "brute"
  /\ npoint = 0 \/ \A y \in 0..(ny - 1) : rows[y][1] = nx
  /\ pc' = "done"
  /\ UNCHANGED <<ny, nx, npoint, dtab, heap, dists, i, fn, bruteVars, treeVars, edgeVars>>

BruteNext == FlatStep \/ FlatEnd \/ (\E y \in 0..(ny - 1) : SeparableStep(y)) \/ SeparableEnd

SpecBrute == BruteInit /\ [][BruteNext]_vars

\* the loop over j for pixel (y, x) run alone from point p on, acc being the
\* pair <<dists[i], areas[i]>> so far: what the pixel holds when the rows are
\* run one after the other
RECURSIVE sequential_pixel(_, _, _, _)
sequential_pixel(y, x, p, acc) ==
  IF p >= npoint THEN acc
  ELSE LET d == separable_dist(y, x, p)
       IN sequential_pixel(y, x, p + 1, IF brute_accept(p, d, acc[1]) THEN <<d, p>> ELSE acc)

(* ================================================================== edges *)
\* find_edges and find_edges_labeled.  push() appends to a growing array; the
\* result is the sequence of the indices pushed.
Labeled == fn = "find_edges_labeled"

\* mask[k] or labels[k] as the build reads it: past the end of the grid it
\* finds what the heap holds
read_grid(k) == IF k < ny * nx THEN mask[k] ELSE heap[k]

\* the test of the four border loops
border_test(k) == IF Labeled THEN read_grid(k) # 0 ELSE read_grid(k) = 0

\* the test of the interior loop
interior_test(k) ==
  IF Labeled
  THEN /\ read_grid(k) # 0
       /\ \/ read_grid(k - 1) # read_grid(k)
          \/ read_grid(k + 1) # read_grid(k)
          \/ read_grid(k - nx) # read_grid(k)
          \/ read_grid(k + nx) # read_grid(k)
  ELSE /\ read_grid(k) = 0
       /\ \/ read_grid(k - 1) # 0
          \/ read_grid(k + 1) # 0
          \/ read_grid(k - nx) # 0
          \/ read_grid(k + nx) # 0

\* for(i = k; i < hi; i += step) if(test) push(i)
RECURSIVE border_loop(_, _, _)
border_loop(k, hi, step) ==
  IF k >= hi THEN << >>
  ELSE (IF border_test(k) THEN <<k>> ELSE << >>) \o border_loop(k + step, hi, step)

top_row == border_loop(0, nx, 1)
bottom_row == border_loop((ny - 1) * nx, nx * nx, 1)
left_column == border_loop(nx, ny * nx, nx)
right_column == border_loop(nx - 1, ny * nx, nx)

\* for(y = 1; y < ny-1; y++) for(x = 1; x < nx-1; x++) if(test) push(y*nx+x)
RECURSIVE interior_loop(_, _)
interior_loop(y, x) ==
  IF y >= ny - 1 THEN << >>
  ELSE IF x >= nx - 1 THEN interior_loop(y + 1, 1)
  ELSE (IF interior_test(y * nx + x) THEN <<y * nx + x>> ELSE << >>)
       \o interior_loop(y, x + 1)

\* the indices at which a border loop reads the grid
loop_reads(k, hi, step) == {n \in k..(hi - 1) : (n - k) % step = 0}

\* the indices at which the interior loop can read the grid
interior_reads ==
  UNION {{y * nx + x, y * nx + x - 1, y * nx + x + 1, y * nx + x - nx, y * nx + x + nx} :
           y \in 1..(ny - 2), x \in 1..(nx - 2)}

\* every index at which the function can read mask or labels
grid_reads ==
  loop_reads(0, nx, 1) \cup loop_reads((ny - 1) * nx, nx * nx, 1)
    \cup loop_reads(nx, ny * nx, nx) \cup loop_reads(nx - 1, ny * nx, nx)
    \cup interior_reads

\* the array the function returns
find_edges == top_row \o bottom_row \o left_column \o right_column \o interior_loop(1, 1)

\* the cells past the end of the grid that the bottom-row loop reads
PastGrid(h, w) == (h * w)..(w * w - 1)

GridValues == IF Labeled THEN 0..MaxLabel ELSE 0..1

EdgeInit ==
  /\ fn \in {"find_edges", "find_edges_labeled"}
  /\ TreeIdle /\ BruteIdle
  /\ ny \in 1..MaxEdgeNy
  /\ nx \in 1..MaxEdgeNx
  /\ mask \in [0..(ny * nx - 1) -> GridValues]
  /\ heap \in [PastGrid(ny, nx) -> GridValues]
  /\ edges = << >>
  /\ posmap = << >> /\ points = << >>
  /\ npoint = 0 /\ dtab = << >> /\ dists = << >> /\ i = 0
  /\ pc = "edges"

\* the call of find_edges or find_edges_labeled; distance_transform goes on
\* with the positions of the edge pixels
FindEdges ==
  /\ pc = "edges"
  /\ edges' = find_edges
  /\ pc' = IF fn = "distance_transform" THEN "points" ELSE "done"
  /\ UNCHANGED <<ny, nx, npoint, dtab, heap, dists, i, fn, mask, posmap, points,
                 treeVars, bruteVars>>

EdgeNext == FindEdges

SpecEdges == EdgeInit /\ [][EdgeNext]_vars

(* ===================================================== distance_transform *)
RaVals == 0..MaxDist

\* every point at the position of pixel 0
point_of_pixel0(e) == posmap[0]

\* posmap[e] and posmap[e + npix] for an index e that find_edges returned
point_of(e) == IF e < ny * nx THEN posmap[e] ELSE JUNK

TransformInit ==
  /\ fn = "distance_transform"
  /\ TreeIdle /\ BruteIdle
  /\ ny \in 1..MaxSide
  /\ nx \in 1..MaxSide
  /\ mask \in [0..(ny * nx - 1) -> 0..1]
  /\ heap \in [PastGrid(ny, nx) -> 0..1]
  /\ posmap \in [0..(ny * nx - 1) -> RaVals]
  /\ dists \in GarbageDists(ny * nx)
  /\ edges = << >>
  /\ points = << >>
  /\ npoint = 0 /\ dtab = << >> /\ i = 0
  /\ pc = "edges"

\* lines 40-42: the positions of the edge pixels become the points
TakePoints ==
  /\ fn = "distance_transform"
  /\ pc = "points"
  /\ npoint' = Len(edges)
  /\ points' = [p \in 0..(Len(edges) - 1) |-> point_of(edges[p + 1])]
  /\ pc' = "brute"
  /\ i' = 0
  /\ UNCHANGED <<ny, nx, dtab, heap, dists, fn, mask, edges, posmap, treeVars, bruteVars>>

\* line 45: the distance of every pixel with mask 0 is set to 0
MaskInterior ==
  /\ fn = "distance_transform"
  /\ pc = "interior"
  /\ dists' = [k \in 0..(ny * nx - 1) |-> IF mask[k] = 0 THEN 0 ELSE dists[k]]
  /\ pc' = "done"
  /\ UNCHANGED <<ny, nx, npoint, dtab, heap, i, fn, edgeVars, treeVars, bruteVars>>

TransformNext == FindEdges \/ TakePoints \/ FlatStep \/ FlatEnd \/ MaskInterior

SpecTransform == TransformInit /\ [][TransformNext]_vars

(* ============================================================ properties *)
Treerings == fn = "distance_from_points_treerings_separable"

\* C1: distance_from_points_treerings_separable always runs to completion: on
\* every grid, seeding and table of distances the propagate loop reaches a pass
\* whose current frontier is empty.
C1_RunsToCompletion == <>(pc = "done")

\* C2: when the function terminates with npoint >= 1 no pixel is left
\* unreached: every pixel has a domain in [0, npoint) and a distance that is
\* not the sentinel.
C2_NoPixelUnreached ==
  (Treerings /\ pc = "done" /\ npoint >= 1) =>
    \A k \in 0..(ny * nx - 1) : domains[k] \in 0..(npoint - 1) /\ dists[k] # SENTINEL

\* C3: after the sentinel fill dists[pixel] never increases: every step of
\* seeding and of propagation leaves at every pixel a value less than or equal
\* to the value stored before.
C3_DistsNeverIncrease ==
  [][Treerings => \A k \in 0..(ny * nx - 1) : dists'[k] <= dists[k]]_vars

\* C4: domains[pixel] is written (and the pixel pushed) only in a step in which
\* dists[pixel] strictly decreases: after a step that wrote a pixel, its
\* distance is strictly less than the one stored before the step.
C4_WriteOnlyOnDecrease ==
  (Treerings /\ last.wr >= 0) => dists[last.wr] < last.old

\* C9: with exactly one reference point the function ends with domain 0 at
\* every pixel and dists[pixel] equal to the distance from that point to the
\* pixel, which is what distance_from_points_separable leaves for one point.
C9_SinglePointExact ==
  (Treerings /\ pc = "done" /\ npoint = 1) =>
    \A y \in 0..(ny - 1), x \in 0..(nx - 1) :
      domains[y * nx + x] = 0 /\ dists[y * nx + x] = calc_dist(0, y, x)

\* C10: propagation wraps around on both axes in one hop: the neighbour
\* relaxed for offset oi of pixel (y, x) is ((y + yoffs) mod ny, (x + xoffs)
\* mod nx), and with nx = 4 and a single point seeded at x = 0 the pixel at
\* x = 3 of the seed row has that point's domain and distance once the first
\* propagate pass is over.
C10_WrapInOneHop ==
  /\ (Treerings /\ last.op = "relax") =>
       /\ last.y2 = (last.y + yoffs[last.oi + 1]) % ny
       /\ last.x2 = (last.x + xoffs[last.oi + 1]) % nx
  /\ (Treerings /\ nx = 4 /\ npoint = 1 /\ point_x[0] = 0 /\ it >= 1) =>
       /\ domains[point_y[0] * nx + 3] = 0
       /\ dists[point_y[0] * nx + 3] = calc_dist(0, point_y[0], 3)

\* the least distance of pixel k to a point, and the lowest point that has it
PointDist(k, p) == dtab[<<p, k \div nx, k % nx>>]
PixelDists(k) == {PointDist(k, p) : p \in 0..(npoint - 1)}
MinDist(k) == CHOOSE d \in PixelDists(k) : \A e \in PixelDists(k) : d <= e
FirstNearest(k) ==
  CHOOSE p \in 0..(npoint - 1) :
    /\ PointDist(k, p) = MinDist(k)
    /\ \A q \in 0..(p - 1) : PointDist(k, q) # MinDist(k)
BruteForce == fn \in {"distance_from_points", "distance_from_points_separable"}

\* C7: for npoint >= 1 distance_from_points and distance_from_points_separable
\* leave in dists[i] the minimum over the points of the distance from pixel i,
\* and, when areas is given, in areas[i] the lowest point index that attains
\* it, whatever dists and areas held before.
C7_BruteForceExact ==
  (BruteForce /\ pc = "done" /\ npoint >= 1) =>
    \A k \in 0..(ny * nx - 1) :
      /\ dists[k] = MinDist(k)
      /\ areas # << >> => areas[k] = FirstNearest(k)

\* a finished run with two points and areas given, in which one pixel is
\* nearer to the second point and another is at the same distance of both
C7_Witness ==
  /\ BruteForce /\ pc = "done" /\ npoint = 2 /\ areas # << >>
  /\ \E k \in 0..(ny * nx - 1) : areas[k] = 1 /\ dists[k] < PointDist(k, 0)
  /\ \E k \in 0..(ny * nx - 1) : areas[k] = 0 /\ PointDist(k, 0) = PointDist(k, 1)

\* the pixels of the grid that the contract of the boundary extractor names
OnBorder(y, x) == y = 0 \/ y = ny - 1 \/ x = 0 \/ x = nx - 1
Neighbours(y, x) == {<<y, x - 1>>, <<y, x + 1>>, <<y - 1, x>>, <<y + 1, x>>}
MaskBoundary ==
  {y * nx + x : <<y, x>> \in
     {q \in (0..(ny - 1)) \X (0..(nx - 1)) :
        /\ mask[q[1] * nx + q[2]] = 0
        /\ \/ OnBorder(q[1], q[2])
           \/ \E r \in Neighbours(q[1], q[2]) : mask[r[1] * nx + r[2]] # 0}}
LabelBoundary ==
  {y * nx + x : <<y, x>> \in
     {q \in (0..(ny - 1)) \X (0..(nx - 1)) :
        /\ mask[q[1] * nx + q[2]] # 0
        /\ \/ OnBorder(q[1], q[2])
           \/ \E r \in Neighbours(q[1], q[2]) :
                mask[r[1] * nx + r[2]] # mask[q[1] * nx + q[2]]}}
Returned == {edges[n] : n \in 1..Len(edges)}

\* C5: the set of indices returned by find_edges is exactly the set of pixels
\* with mask 0 that lie on the outer border of the grid or have a 4-neighbour
\* with a nonzero mask; every zero pixel of the bottom row is returned.
C5_FindEdgesExact ==
  (fn = "find_edges" /\ pc = "done") => Returned = MaskBoundary

\* C6: the set of indices returned by find_edges_labeled is exactly the set
\* of pixels with a nonzero label that lie on the outer border of the grid or
\* have a 4-neighbour whose label differs from their own.
C6_FindEdgesLabeledExact ==
  (fn = "find_edges_labeled" /\ pc = "done") => Returned = LabelBoundary

\* C8: distance_transform on a mask with no zero pixel: find_edges returns an
\* empty sequence and on return every entry of the distance grid is 0,
\* whatever the grid held before the call.
C8_AllOnesGivesZero ==
  (fn = "distance_transform" /\ pc = "done" /\ \A k \in 0..(ny * nx - 1) : mask[k] # 0) =>
    /\ edges = << >>
    /\ \A k \in 0..(ny * nx - 1) : dists[k] = 0

\* C11: in distance_from_points_separable the worker of row y writes only
\* cells y*nx .. (y+1)*nx-1 of dists and areas, no cell changes unless a
\* worker steps, and under every interleaving of the row workers the final
\* dists and areas are those of the sequential row-by-row execution.
C11_RowsIndependent ==
  [][Separable =>
       /\ \A k \in 0..(ny * nx - 1) :
            (dists'[k] # dists[k] \/ (areas # << >> /\ areas'[k] # areas[k])) =>
              (rows'[k \div nx] # rows[k \div nx] /\ rows[k \div nx][1] = k % nx)
       /\ (pc' = "done" /\ npoint >= 1) =>
            \A y \in 0..(ny - 1), x \in 0..(nx - 1) :
              LET r == sequential_pixel(y, x, 0, <<SENTINEL, UNASSIGNED>>)
              IN /\ dists'[y * nx + x] = r[1]
                 /\ (areas' # << >> => areas'[y * nx + x] = r[2])]_vars

\* two rows are both in the middle of their work and the later row has
\* already replaced a cell of its own
C11_Witness ==
  /\ Separable /\ pc = "brute" /\ ny = 2 /\ npoint = 2 /\ areas # << >>
  /\ rows[0] = <<0, 1>>
  /\ rows[1][1] = 1
  /\ areas[nx] = 1 /\ areas[0] = 0

\* the stepwise run and the whole-run function agree at the return
RunAgrees ==
  (Treerings /\ pc = "done") =>
    LET r == treerings_run(FALSE) IN r.fin /\ r.d = dists /\ r.m = domains

TopRow == [n \in 1..nx |-> n - 1]
BottomRow == [n \in 1..nx |-> (ny - 1) * nx + n - 1]
LeftColumn == [n \in 1..ny |-> (n - 1) * nx]
RightColumn == [n \in 1..ny |-> (n - 1) * nx + nx - 1]
Interior ==
  IF ny > 2 /\ nx > 2
  THEN [n \in 1..((ny - 2) * (nx - 2)) |->
          (1 + ((n - 1) \div (nx - 2))) * nx + 1 + ((n - 1) % (nx - 2))]
  ELSE << >>
IsZero(k) == mask[k] = 0
Qualifies(k) == k \in MaskBoundary
Corners == {0, nx - 1, (ny - 1) * nx, ny * nx - 1}

\* C13: the sequence returned by find_edges is the zero pixels of the top
\* row, of the bottom row, of the left column and of the right column, each
\* in increasing index, then the qualifying interior pixels in row-major
\* order; only corner pixels occur more than once.
C13_FindEdgesOrder ==
  (fn = "find_edges" /\ pc = "done") =>
    /\ edges = SelectSeq(TopRow, IsZero) \o SelectSeq(BottomRow, IsZero)
                  \o SelectSeq(LeftColumn, IsZero) \o SelectSeq(RightColumn, IsZero)
                  \o SelectSeq(Interior, Qualifies)
    /\ \A n, m \in 1..Len(edges) : (n # m /\ edges[n] = edges[m]) => edges[n] \in Corners

\* C14: with npoint = 0 distance_from_points_treerings_separable executes no
\* propagate pass and returns with dists equal to the sentinel and domains
\* equal to -1 at every pixel.
C14_NoPointsSentinelGrid ==
  (Treerings /\ npoint = 0) =>
    /\ pc # "prop"
    /\ it = 0
    /\ pc = "done" => \A k \in 0..(ny * nx - 1) : dists[k] = SENTINEL /\ domains[k] = UNASSIGNED

\* the function has returned from a call with no point on a grid of several
\* pixels
C14_Witness ==
  /\ Treerings /\ npoint = 0 /\ pc = "done" /\ ny * nx >= 2
  /\ last.op = "swap"

\* the distance between pixels k and e of the position map
Separation(k, e) == IF posmap[k] >= posmap[e] THEN posmap[k] - posmap[e] ELSE posmap[e] - posmap[k]
NearestEdge(k) ==
  CHOOSE d \in {Separation(k, e) : e \in Returned} :
    \A e \in Returned : d <= Separation(k, e)

\* C15: on a grid with ny = nx and a mask with a zero pixel, distance_transform
\* ends with dists 0 at every pixel with mask 0 and, at every other pixel, the
\* minimum distance to the pixels returned by find_edges; the mask and the
\* position map are never changed.
C15_TransformResult ==
  [][fn = "distance_transform" =>
       /\ mask' = mask
       /\ posmap' = posmap
       /\ (pc' = "done" /\ ny = nx /\ \E k \in 0..(ny * nx - 1) : mask[k] = 0) =>
            \A k \in 0..(ny * nx - 1) :
              dists'[k] = IF mask[k] = 0 THEN 0 ELSE NearestEdge(k)']_vars

\* a returned transform of a 2x2 grid where a masked pixel is at distance 1
\* from its nearest edge pixel and at distance 2 from another
C15_Witness ==
  /\ fn = "distance_transform" /\ pc = "done" /\ ny = 2 /\ nx = 2
  /\ \E k \in 0..(ny * nx - 1) :
       /\ mask[k] # 0
       /\ dists[k] = 1
       /\ \E e \in Returned : Separation(k, e) = 2

\* C16: immediately after every swap the next frontier is empty and the
\* current frontier is the sequence of the pixels pushed since the previous
\* swap, in push order (every update appends its pixel to next, nothing else
\* changes a frontier); after the swap that follows seeding the current
\* frontier is the seed pixels of the points, in point order.
C16_DoubleBuffering ==
  [][Treerings =>
       IF last'.op = "swap"
       THEN /\ next' = << >>
            /\ curr' = next
            /\ pc = "seed" => curr' = [p \in 1..npoint |-> <<point_y[p - 1], point_x[p - 1]>>]
       ELSE /\ curr' = curr
            /\ next' = IF last'.wr >= 0
                       THEN Append(next, <<last'.wr \div nx, last'.wr % nx>>)
                       ELSE next]_vars

\* a swap at the end of a pass has just handed over a frontier in which a
\* pixel occurs twice
C16_Witness ==
  /\ Treerings /\ last.op = "swap" /\ it >= 1 /\ next = << >>
  /\ \E n, m \in 1..Len(curr) : n < m /\ curr[n] = curr[m]

\* C17: in every state of distance_from_points_treerings_separable after the
\* sentinel fill, a pixel either has domain -1 and distance 1e300, or has a
\* domain p in 0..npoint-1 and the distance from point p itself to the
\* pixel, which is never below the minimum over all points.
C17_DistMatchesOwner ==
  Treerings =>
    \A k \in 0..(ny * nx - 1) :
      \/ domains[k] = UNASSIGNED /\ dists[k] = SENTINEL
      \/ /\ domains[k] \in 0..(npoint - 1)
         /\ dists[k] = PointDist(k, domains[k])
         /\ dists[k] >= MinDist(k)

\* during propagation one pixel is still unassigned, one was taken through
\* a neighbour by a point other than its nearest
C17_Witness ==
  /\ Treerings /\ pc = "prop" /\ npoint = 2
  /\ \E k \in 0..(ny * nx - 1) : domains[k] = UNASSIGNED
  /\ \E k \in 0..(ny * nx - 1) :
       /\ domains[k] # UNASSIGNED
       /\ \A p \in 0..(npoint - 1) : k # point_y[p] * nx + point_x[p]
       /\ dists[k] > MinDist(k)

\* the four wrap-around neighbours of pixel k
WrapNeighbours(k) ==
  {(((k \div nx) + yoffs[o] + ny) % ny) * nx + (((k % nx) + xoffs[o] + nx) % nx) : o \in 1..nneigh}

\* C18: when the propagate loop has exited, for every assigned pixel q with
\* owner p and each of its four wrap-around neighbours r, the distance from
\* point p to r is at least dists[r]: no further relaxation step could
\* improve a pixel.
C18_LocallyStable ==
  (Treerings /\ pc = "done") =>
    \A q \in 0..(ny * nx - 1) :
      domains[q] # UNASSIGNED =>
        \A r \in WrapNeighbours(q) : PointDist(r, domains[q]) >= dists[r]

\* C19: in distance_from_points_treerings_separable the index whose stored
\* distance is compared with the candidate of neighbour (y2, x2) lies in
\* 0..ny*nx-1 and is the index y2*nx+x2 that the update writes, and every
\* written index lies in 0..ny*nx-1.
C19_IndicesInRange ==
  (Treerings /\ last.op \in {"seed", "relax"}) =>
    /\ last.wr >= 0 => last.wr \in 0..(ny * nx - 1)
    /\ last.op = "relax" =>
         /\ last.cmp \in 0..(ny * nx - 1)
         /\ last.cmp = last.y2 * nx + last.x2

\* C20: find_edges and find_edges_labeled read the mask or label grid only
\* at indices in 0..ny*nx-1 and return only indices in 0..ny*nx-1.
C20_EdgeIndicesInRange ==
  (fn \in {"find_edges", "find_edges_labeled"} /\ pc = "done") =>
    /\ grid_reads \subseteq 0..(ny * nx - 1)
    /\ Returned \subseteq 0..(ny * nx - 1)

====
